---- MODULE Spec2Model ----
(***************************************************************************)
(* Model of bot.py: the Telegram command handlers start, register,         *)
(* balance, help_command and handle_message over the two MongoDB           *)
(* collections db.users and db.system_config.                              *)
(*                                                                         *)
(* Python values are modelled as follows.  A str is a sequence of          *)
(* one-character strings.  A value that may be None is a sequence of       *)
(* length 0 (None) or 1 (the value).  A document (dict) is a record whose  *)
(* DOMAIN is the set of keys it has.  A collection is the sequence of its  *)
(* documents in insertion order.                                           *)
(*                                                                         *)
(* A handler run takes one step per store round trip (find_one,            *)
(* insert_one); the statements up to the next round trip belong to that    *)
(* step, the reply_text calls among them included, since a reply reads and *)
(* writes nothing the runs share.  The collections live in the database    *)
(* server, so the runs that share them (MaxHandlers of them at a time)     *)
(* interleave between these steps.  (One bot process handles its updates   *)
(* one at a time and awaits nothing between a lookup and the insert after  *)
(* it; the runs that interleave there are those of processes that share    *)
(* the database.)  Each store call and each reply_text call either returns *)
(* or raises.                                                              *)
(*                                                                         *)
(* The                                                                     *)
(* locals of a run (task[h]) are gone when it returns or raises; finished  *)
(* is what is then seen of the run that ended last: the calls it made, the *)
(* replies it sent, and whether it returned ("done") or raised.            *)
(***************************************************************************)
EXTENDS Integers, Sequences, FiniteSets, TLC

VARIABLES users_collection, config_collection, users, system_config,
          task, finished, delivered

vars == <<users_collection, config_collection, users, system_config,
          task, finished, delivered>>

\* ------------------------------------------------------------------ bounds
MaxHandlers == 2      \* handler runs in flight at the same time
MaxEvents == 2        \* updates delivered in one behaviour
NRand == 2            \* outcomes of the random source that are distinguished
MaxNameLen == 9       \* longest display name of the generator's specification

\* ------------------------------------------------------- python primitives
None == <<>>
Some(v) == <<v>>

Lowercase == <<"a","b","c","d","e","f","g","h","i","j","k","l","m",
               "n","o","p","q","r","s","t","u","v","w","x","y","z">>
Uppercase == <<"A","B","C","D","E","F","G","H","I","J","K","L","M",
               "N","O","P","Q","R","S","T","U","V","W","X","Y","Z">>
Digits == <<"0","1","2","3","4","5","6","7","8","9">>

\* string.ascii_letters + string.digits
alphabet == Lowercase \o Uppercase \o Digits

\* str(n) of a non-negative int
RECURSIVE str(_)
str(n) == IF n < 10 THEN <<Digits[n + 1]>>
          ELSE str(n \div 10) \o <<Digits[(n % 10) + 1]>>

\* c.lower() of one character
lower_char(c) ==
    IF \E i \in DOMAIN Uppercase : Uppercase[i] = c
    THEN Lowercase[CHOOSE i \in DOMAIN Uppercase : Uppercase[i] = c]
    ELSE c

\* s.lower()
lower(s) == [i \in DOMAIN s |-> lower_char(s[i])]

\* s.replace(' ', '')
RECURSIVE remove_spaces(_)
remove_spaces(s) ==
    IF s = <<>> THEN <<>>
    ELSE IF Head(s) = " " THEN remove_spaces(Tail(s))
    ELSE <<Head(s)>> \o remove_spaces(Tail(s))

\* s[:n]
prefix(s, n) == IF Len(s) <= n THEN s ELSE SubSeq(s, 1, n)

\* s[-n:]
suffix(s, n) == IF Len(s) <= n THEN s ELSE SubSeq(s, Len(s) - n + 1, Len(s))

\* max(a, b)
max(a, b) == IF a >= b THEN a ELSE b

\* d.get(key, default)
get(d, key, default) == IF key \in DOMAIN d THEN d[key] ELSE default

\* ----------------------------------------------------- credential generator
PasswordLength == 12

\* generate_password: length characters, each secrets.choice(alphabet); r is
\* the outcome of the random source
generate_password(length, r) ==
    [i \in 1..length |-> alphabet[((r * i * i + 7 * i) % Len(alphabet)) + 1]]

\* a variant that cuts the display name to 8 characters before it removes the
\* spaces
generate_username_cut_first(telegram_id, first_name) ==
    LET base_username ==
            IF first_name # None /\ first_name[1] # <<>>
            THEN remove_spaces(prefix(lower(first_name[1]), 8))
            ELSE <<"u","s","e","r">>
    IN  base_username \o <<"_">> \o suffix(telegram_id, 6)

generate_username(telegram_id, first_name) ==
    LET base_username ==
            prefix(IF first_name # None /\ first_name[1] # <<>>
                   THEN remove_spaces(lower(first_name[1]))
                   ELSE <<"u","s","e","r">>, 8)
    IN  base_username \o <<"_">> \o suffix(telegram_id, 6)

\* ------------------------------------------------------------ the store
\* a variant that filters on the field "id" whatever the key asked for
find_one_wrong_field(collection, key, value) ==
    LET hits == {i \in DOMAIN collection :
                    "id" \in DOMAIN collection[i] /\ collection[i]["id"] = value}
    IN  IF hits = {} THEN None
        ELSE Some(collection[CHOOSE i \in hits : \A j \in hits : i <= j])

\* collection.find_one({key: value}): the first matching document, or None
find_one(collection, key, value) ==
    LET hits == {i \in DOMAIN collection :
                    key \in DOMAIN collection[i] /\ collection[i][key] = value}
    IN  IF hits = {} THEN None
        ELSE Some(collection[CHOOSE i \in hits : \A j \in hits : i <= j])

\* collection.insert_one(document)
insert_one(collection, document) == Append(collection, document)

\* a variant that leaves the new account unverified
new_user_unverified(username, password, telegram_id) ==
    [login_username |-> username,
     password |-> password,
     telegram_id |-> telegram_id,
     coins |-> 0,
     is_verified |-> FALSE,
     is_banned |-> FALSE,
     daily_usage_count |-> 0,
     last_usage_date |-> <<>>]

\* the document register builds
new_user(username, password, telegram_id) ==
    [login_username |-> username,
     password |-> password,
     telegram_id |-> telegram_id,
     coins |-> 0,
     is_verified |-> TRUE,
     is_banned |-> FALSE,
     daily_usage_count |-> 0,
     last_usage_date |-> <<>>]

\* ------------------------------------------------------------- the replies
DbUnavailable == [kind |-> "db_unavailable"]
AlreadyRegistered == [kind |-> "already_registered"]
ErrorCreating == [kind |-> "error_creating"]
NotRegistered == [kind |-> "not_registered"]
HelpText == [kind |-> "help"]
FallbackText == [kind |-> "fallback"]

start_message(user, existing_user) ==
    IF existing_user # None
    THEN [kind |-> "account",
          first_name |-> user.first_name,
          username |-> get(existing_user[1], "login_username", <<"N","/","A">>),
          coins |-> get(existing_user[1], "coins", 0),
          is_verified |-> get(existing_user[1], "is_verified", FALSE)]
    ELSE [kind |-> "welcome", first_name |-> user.first_name]

success_message(username, password) ==
    [kind |-> "registered", username |-> username, password |-> password]

\* a variant without the clamp at 0
remaining_free_unclamped(daily_limit, daily_usage) == daily_limit - daily_usage

remaining_free(daily_limit, daily_usage) == max(0, daily_limit - daily_usage)

balance_message(existing_user, config_found) ==
    LET coins == get(existing_user, "coins", 0)
        daily_usage == get(existing_user, "daily_usage_count", 0)
        config == IF config_found # None THEN config_found[1]
                  ELSE [x \in {} |-> 0]
        daily_limit == get(config, "daily_free_limit", 0)
    IN  [kind |-> "balance",
         coins |-> coins,
         free_line |-> IF daily_limit > 0
                       THEN Some([remaining |-> remaining_free(daily_limit, daily_usage),
                                  limit |-> daily_limit])
                       ELSE None]

\* ------------------------------------------------------------- the state
Handlers == 1..MaxHandlers

AnaMaria == <<"A","n","a"," ","M","a","r","i","a">>

\* update.effective_user of the updates that are delivered
Senders == {[id |-> 12345678, first_name |-> Some(AnaMaria)],
            [id |-> 42, first_name |-> None]}

Commands == {"start", "register", "balance", "help", "text"}

\* documents db.users may hold when the process starts (they are written by
\* the dashboard too, and every read of a field goes through get)
StoredUser(usage) ==
    [login_username |-> <<"a","n","a">>,
     password |-> <<"p","w">>,
     telegram_id |-> str(12345678),
     coins |-> 5,
     is_verified |-> FALSE,
     is_banned |-> FALSE,
     daily_usage_count |-> usage,
     last_usage_date |-> <<>>]

InitialUsers == {<<>>,
                 <<StoredUser(3)>>,
                 <<StoredUser(15)>>,
                 <<[telegram_id |-> str(12345678)]>>}

GlobalConfig == "global_config"

InitialConfig10 == <<[setting_name |-> GlobalConfig, daily_free_limit |-> 10]>>

InitialConfig == {<<>>,
                  <<[setting_name |-> GlobalConfig]>>,
                  <<[setting_name |-> GlobalConfig, daily_free_limit |-> 0]>>,
                  InitialConfig10}

\* a handler slot with no run in it
Idle == [pc |-> "idle", update |-> None, existing_user |-> None,
         credentials |-> None, exc |-> "none", calls |-> <<>>, replies |-> <<>>]

\* init_db: both handles stay None when MONGO_URI is missing or MongoClient
\* raises; an exception between the two assignments leaves only the first set
init_db ==
    \/ users_collection = "None" /\ config_collection = "None"
    \/ users_collection = "db.users" /\ config_collection = "None"
    \/ users_collection = "db.users" /\ config_collection = "db.system_config"

\* The state after the module is loaded, with the collections holding one of
\* the given contents.  The contents of a collection the process has no handle
\* on cannot be read or written by it, and are left empty.
InitOver(stored_users, stored_config) ==
    /\ init_db
    /\ users \in IF users_collection = "None" THEN {<<>>} ELSE stored_users
    /\ system_config \in IF config_collection = "None" THEN {<<>>}
                          ELSE stored_config
    /\ task = [h \in Handlers |-> Idle]
    /\ finished = None
    /\ delivered = 0

Init == InitOver({<<>>, <<StoredUser(3)>>}, {<<>>, InitialConfig10})

\* every stored content, for the specification of /balance
InitBalance == InitOver(InitialUsers, InitialConfig)

\* ------------------------------------------------------------- helpers
Free(h) == task[h].pc = "idle"

user(h) == task[h].update[1].effective_user

telegram_id(h) == str(user(h).id)

Step(h, t) ==
    /\ IF t.pc \in {"done", "raised"}
       THEN task' = [task EXCEPT ![h] = Idle] /\ finished' = Some(t)
       ELSE task' = [task EXCEPT ![h] = t] /\ UNCHANGED finished
    /\ UNCHANGED <<users_collection, config_collection, delivered>>

\* a store call of the run: its name and whether it returned
called(t, op, ok) == [t EXCEPT !.calls = Append(@, [op |-> op, ok |-> ok])]

\* a store call that raises, outside any try block
raised(t, op) == [called(t, op, FALSE) EXCEPT !.pc = "raised", !.exc = op]

\* await update.message.reply_text(m): on success the run goes on at next,
\* otherwise the exception goes to handler (the except block, or out of the run)
reply_text(t, m, ok, next, handler) ==
    [t EXCEPT !.replies = Append(@, [message |-> m, ok |-> ok]),
              !.pc = IF ok THEN next ELSE handler,
              !.exc = IF ok THEN @ ELSE "reply_text"]

\* ----------------------------------------------------------- dispatching
\* Application hands the update to the handler registered for its command;
\* the run takes the first free slot (the slots are interchangeable)
Dispatch(h, command, sender) ==
    /\ Free(h)
    /\ \A g \in Handlers : Free(g) => h <= g
    /\ delivered < MaxEvents
    /\ delivered' = delivered + 1
    /\ task' = [task EXCEPT ![h] =
                 [Idle EXCEPT !.pc = command,
                              !.update = Some([command |-> command,
                                               effective_user |-> sender])]]
    /\ UNCHANGED <<users_collection, config_collection, users, system_config,
                   finished>>

\* ----------------------------------------------------------------- start
StartUnavailable(h) ==
    /\ task[h].pc = "start"
    /\ users_collection = "None"
    /\ \E ok \in BOOLEAN :
         Step(h, reply_text(task[h], DbUnavailable, ok, "done", "raised"))
    /\ UNCHANGED <<users, system_config>>

StartFind(h) ==
    /\ task[h].pc = "start"
    /\ users_collection # "None"
    /\ \/ Step(h, raised(task[h], "users.find_one"))
       \/ \E ok \in BOOLEAN :
            LET found == find_one(users, "telegram_id", telegram_id(h))
                t == [called(task[h], "users.find_one", TRUE) EXCEPT
                        !.existing_user = found]
            IN  Step(h, reply_text(t, start_message(user(h), found), ok,
                                   "done", "raised"))
    /\ UNCHANGED <<users, system_config>>

\* -------------------------------------------------------------- register
RegisterUnavailable(h) ==
    /\ task[h].pc = "register"
    /\ users_collection = "None"
    /\ \E ok \in BOOLEAN :
         Step(h, reply_text(task[h], DbUnavailable, ok, "done", "raised"))
    /\ UNCHANGED <<users, system_config>>

\* lines 115-117: the credentials of a new account
credentials(h, r) ==
    [username |-> generate_username(telegram_id(h), user(h).first_name),
     password |-> generate_password(PasswordLength, r)]

RegisterFind(h) ==
    /\ task[h].pc = "register"
    /\ users_collection # "None"
    /\ \/ Step(h, raised(task[h], "users.find_one"))
       \/ LET found == find_one(users, "telegram_id", telegram_id(h))
              t == [called(task[h], "users.find_one", TRUE) EXCEPT
                      !.existing_user = found]
          IN  IF found # None
              THEN \E ok \in BOOLEAN :
                     Step(h, reply_text(t, AlreadyRegistered, ok, "done", "raised"))
              ELSE \E r \in 1..NRand :
                     Step(h, [t EXCEPT !.credentials = Some(credentials(h, r)),
                                       !.pc = "register_insert"])
    /\ UNCHANGED <<users, system_config>>

\* the try block: insert_one, then the reply with the credentials
register_try(t, inserted, replied) ==
    IF inserted
    THEN reply_text(called(t, "users.insert_one", TRUE),
                    success_message(t.credentials[1].username,
                                    t.credentials[1].password),
                    replied, "done", "register_except")
    ELSE [called(t, "users.insert_one", FALSE) EXCEPT
            !.exc = "users.insert_one", !.pc = "register_except"]

\* the except block
register_except(t, replied) ==
    reply_text(t, ErrorCreating, replied, "done", "raised")

\* a variant whose except block tries the insert once more before it replies
RegisterInsert_Retry(h) ==
    /\ task[h].pc = "register_insert"
    /\ \E inserted, replied, reported \in BOOLEAN :
         LET c == task[h].credentials[1]
             tried == register_try(task[h], inserted, replied)
         IN  /\ users' = IF inserted \/ tried.exc = "users.insert_one"
                         THEN insert_one(users, new_user(c.username, c.password,
                                                         telegram_id(h)))
                         ELSE users
             /\ Step(h, IF tried.pc = "register_except"
                        THEN register_except(
                               IF tried.exc = "users.insert_one"
                               THEN called(tried, "users.insert_one", TRUE)
                               ELSE tried, reported)
                        ELSE tried)
    /\ UNCHANGED system_config

RegisterInsert(h) ==
    /\ task[h].pc = "register_insert"
    /\ \E inserted, replied, reported \in BOOLEAN :
         LET c == task[h].credentials[1]
             tried == register_try(task[h], inserted, replied)
         IN  /\ users' = IF inserted
                         THEN insert_one(users, new_user(c.username, c.password,
                                                         telegram_id(h)))
                         ELSE users
             /\ Step(h, IF tried.pc = "register_except"
                        THEN register_except(tried, reported)
                        ELSE tried)
    /\ UNCHANGED system_config

\* --------------------------------------------------------------- balance
\* a variant that checks the users handle alone
balance_unavailable_users_only == users_collection = "None"

\* line 153
balance_unavailable == users_collection = "None" \/ config_collection = "None"

BalanceUnavailable(h) ==
    /\ task[h].pc = "balance"
    /\ balance_unavailable
    /\ \E ok \in BOOLEAN :
         Step(h, reply_text(task[h], DbUnavailable, ok, "done", "raised"))
    /\ UNCHANGED <<users, system_config>>

BalanceFind(h) ==
    /\ task[h].pc = "balance"
    /\ ~balance_unavailable
    /\ \/ Step(h, raised(task[h], "users.find_one"))
       \/ LET found == find_one(users, "telegram_id", telegram_id(h))
              t == [called(task[h], "users.find_one", TRUE) EXCEPT
                      !.existing_user = found]
          IN  IF found = None
              THEN \E ok \in BOOLEAN :
                     Step(h, reply_text(t, NotRegistered, ok, "done", "raised"))
              ELSE Step(h, [t EXCEPT !.pc = "balance_config"])
    /\ UNCHANGED <<users, system_config>>

\* a variant that counts the /balance as a use of the day
BalanceConfig_Counts(h) ==
    /\ task[h].pc = "balance_config"
    /\ \E ok \in BOOLEAN :
         LET config == find_one(system_config, "setting_name", GlobalConfig)
             t == called(task[h], "system_config.find_one", TRUE)
             counted == [i \in DOMAIN users |->
                           IF "daily_usage_count" \in DOMAIN users[i]
                           THEN [users[i] EXCEPT !.daily_usage_count = @ + 1]
                           ELSE users[i]]
         IN  /\ users' = counted
             /\ Step(h, reply_text(t, balance_message(t.existing_user[1], config),
                                   ok, "done", "raised"))
    /\ UNCHANGED system_config

BalanceConfig(h) ==
    /\ task[h].pc = "balance_config"
    /\ \/ Step(h, raised(task[h], "system_config.find_one"))
       \/ \E ok \in BOOLEAN :
            LET config == find_one(system_config, "setting_name", GlobalConfig)
                t == called(task[h], "system_config.find_one", TRUE)
            IN  Step(h, reply_text(t, balance_message(t.existing_user[1], config),
                                   ok, "done", "raised"))
    /\ UNCHANGED <<users, system_config>>

\* --------------------------------------------------- help and free text
help_command(h) ==
    /\ task[h].pc = "help"
    /\ \E ok \in BOOLEAN :
         Step(h, reply_text(task[h], HelpText, ok, "done", "raised"))
    /\ UNCHANGED <<users, system_config>>

handle_message(h) ==
    /\ task[h].pc = "text"
    /\ \E ok \in BOOLEAN :
         Step(h, reply_text(task[h], FallbackText, ok, "done", "raised"))
    /\ UNCHANGED <<users, system_config>>

\* ------------------------------------------------------ the specification
start(h) == StartUnavailable(h) \/ StartFind(h)

register(h) == RegisterUnavailable(h) \/ RegisterFind(h) \/ RegisterInsert(h)

balance(h) == BalanceUnavailable(h) \/ BalanceFind(h) \/ BalanceConfig(h)

Next ==
    \/ \E h \in Handlers, c \in Commands, s \in Senders : Dispatch(h, c, s)
    \/ \E h \in Handlers : start(h)
    \/ \E h \in Handlers : register(h)
    \/ \E h \in Handlers : balance(h)
    \/ \E h \in Handlers : help_command(h)
    \/ \E h \in Handlers : handle_message(h)

Spec == Init /\ [][Next]_vars

\* /register and /balance alone, over every stored content
NextBalance ==
    \/ \E h \in Handlers, c \in {"register", "balance"}, s \in Senders :
         Dispatch(h, c, s)
    \/ \E h \in Handlers : register(h)
    \/ \E h \in Handlers : balance(h)

SpecBalance == InitBalance /\ [][NextBalance]_vars

\* the credential generator alone: one /register run per sender, over every
\* display name of at most MaxNameLen characters of NameAlphabet
NameAlphabet == {"A", "b", " "}

GenNames ==
    {None, Some(AnaMaria)}
      \cup {Some(d) : d \in UNION {[1..n -> NameAlphabet] : n \in 0..MaxNameLen}}

GenSenders == {[id |-> i, first_name |-> d] : i \in {42, 123456, 12345678},
                                              d \in GenNames}

InitGen ==
    /\ users_collection = "db.users"
    /\ config_collection = "db.system_config"
    /\ users = <<>>
    /\ system_config = <<>>
    /\ \E s \in GenSenders :
         task = [h \in Handlers |->
                   IF h = 1
                   THEN [Idle EXCEPT !.pc = "register",
                                     !.update = Some([command |-> "register",
                                                      effective_user |-> s])]
                   ELSE Idle]
    /\ finished = None
    /\ delivered = 1

NextGen == \E h \in Handlers : RegisterFind(h)

SpecGen == InitGen /\ [][NextGen]_vars

\* ---------------------------------------------------------------- claims
command(t) == t.update[1].command

sender_id(t) == str(t.update[1].effective_user.id)

\* the store holds a record of this external id
HasRecord(id) ==
    \E i \in DOMAIN users :
        "telegram_id" \in DOMAIN users[i] /\ users[i].telegram_id = id

Records(id) ==
    {i \in DOMAIN users :
        "telegram_id" \in DOMAIN users[i] /\ users[i].telegram_id = id}

\* run h takes the step
Acts(h) == task[h].pc # "idle" /\ task'[h] # task[h]

\* run h after its step: its locals, or what is seen of it once it has ended
After(h) == IF task'[h].pc = "idle" THEN finished'[1] ELSE task'[h]

Inserts(t) == {i \in DOMAIN t.calls : t.calls[i].op = "users.insert_one"}

Sent(t) == [i \in DOMAIN t.replies |-> t.replies[i].message]

\* C1: the user store holds at most one record per external id, whatever the
\* interleaving of the handler runs.
C1_OneRecordPerId ==
    \A i, j \in DOMAIN users :
        users[i].telegram_id = users[j].telegram_id => i = j

\* C2: a /register whose lookup finds a record of the sender's id inserts
\* nothing, leaves the user store as it was, and its one reply is "already
\* registered"; so the second of two /register of one id creates no record.
C2_RegisterExistingIsNoOp ==
    [][\A h \in Handlers :
         (/\ Acts(h)
          /\ task[h].pc = "register"
          /\ HasRecord(sender_id(task[h]))
          /\ After(h).exc # "users.find_one")
         => /\ users' = users
            /\ task'[h].pc = "idle"
            /\ Inserts(After(h)) = {}
            /\ After(h).credentials = None
            /\ Sent(After(h)) = <<AlreadyRegistered>>]_vars

C2_Witness ==
    /\ finished # None
    /\ delivered = 2
    /\ command(finished[1]) = "register"
    /\ finished[1].pc = "done"
    /\ finished[1].replies = <<[message |-> AlreadyRegistered, ok |-> TRUE]>>
    /\ Cardinality(Records(sender_id(finished[1]))) = 1
    /\ \A i \in Records(sender_id(finished[1])) : users[i].is_verified = TRUE

\* the last store call of run t was an insert_one that returned; an
\* insert_one of run t raised
InsertReturned(t) ==
    t.calls # <<>> /\ t.calls[Len(t.calls)] = [op |-> "users.insert_one", ok |-> TRUE]

InsertRaised(t) ==
    \E i \in DOMAIN t.calls : t.calls[i] = [op |-> "users.insert_one", ok |-> FALSE]

IsPassword(p) ==
    /\ Len(p) = PasswordLength
    /\ \A i \in DOMAIN p : \E j \in DOMAIN alphabet : alphabet[j] = p[i]

\* C3: a /register of an id without a record whose insert succeeds adds
\* exactly one record, with the sender's id, coins 0, verified, not banned,
\* usage 0, no usage date, the generated username and a generated password,
\* and the credentials of the success reply are the ones stored.
C3_RegisterCreatesRecord ==
    [][\A h \in Handlers :
         (/\ Acts(h)
          /\ task[h].pc = "register_insert"
          /\ InsertReturned(After(h)))
         => /\ task[h].existing_user = None
            /\ Len(users') = Len(users) + 1
            /\ SubSeq(users', 1, Len(users)) = users
            /\ LET created == users'[Len(users')]
                   first == After(h).replies[1].message
               IN  /\ DOMAIN created =
                        {"login_username", "password", "telegram_id", "coins",
                         "is_verified", "is_banned", "daily_usage_count",
                         "last_usage_date"}
                   /\ created.telegram_id = sender_id(task[h])
                   /\ created.coins = 0
                   /\ created.is_verified = TRUE
                   /\ created.is_banned = FALSE
                   /\ created.daily_usage_count = 0
                   /\ created.last_usage_date = <<>>
                   /\ created.login_username =
                        generate_username(sender_id(task[h]),
                                          task[h].update[1].effective_user.first_name)
                   /\ IsPassword(created.password)
                   /\ first.kind = "registered"
                   /\ first.username = created.login_username
                   /\ first.password = created.password]_vars

C3_Witness ==
    /\ finished # None
    /\ command(finished[1]) = "register"
    /\ finished[1].pc = "done"
    /\ InsertReturned(finished[1])
    /\ finished[1].replies[1].ok
    /\ \E i \in Records(sender_id(finished[1])) :
         /\ users[i].login_username = finished[1].replies[1].message.username
         /\ users[i].password = finished[1].replies[1].message.password
         /\ users[i].login_username =
              <<"a","n","a","m","a","r","i","a","_","3","4","5","6","7","8">>

\* what the claim reads from the stores
ConfiguredLimit ==
    IF \E i \in DOMAIN system_config :
          /\ system_config[i].setting_name = GlobalConfig
          /\ "daily_free_limit" \in DOMAIN system_config[i]
    THEN (CHOOSE d \in {system_config[i] : i \in DOMAIN system_config} :
            d.setting_name = GlobalConfig).daily_free_limit
    ELSE 0

UsageOf(doc) ==
    IF "daily_usage_count" \in DOMAIN doc THEN doc.daily_usage_count ELSE 0

\* C4: the balance reply of an existing user has the free-uses line exactly
\* when the configured dailyFreeLimit (0 when the config record or the field
\* is absent) is positive, and the remaining free uses it reports are
\* max(0, dailyFreeLimit - dailyUsageCount): never negative, the difference
\* when usage is within the limit (10 and 3 give 7), 0 beyond it (15 gives 0).
C4_BalanceRemainingFree ==
    (finished # None /\ command(finished[1]) = "balance"
       /\ finished[1].replies # <<>>
       /\ finished[1].replies[1].message.kind = "balance")
    => LET line == finished[1].replies[1].message.free_line
           usage == UsageOf(finished[1].existing_user[1])
       IN  /\ finished[1].existing_user # None
           /\ (line # None) <=> (ConfiguredLimit > 0)
           /\ line # None =>
                /\ line[1].limit = ConfiguredLimit
                /\ line[1].remaining >= 0
                /\ usage <= ConfiguredLimit =>
                     line[1].remaining + usage = ConfiguredLimit
                /\ usage > ConfiguredLimit => line[1].remaining = 0
                /\ (ConfiguredLimit = 10 /\ usage = 3) => line[1].remaining = 7
                /\ (ConfiguredLimit = 10 /\ usage = 15) => line[1].remaining = 0

C4_Witness ==
    /\ finished # None
    /\ command(finished[1]) = "balance"
    /\ finished[1].pc = "done"
    /\ finished[1].existing_user # None
    /\ UsageOf(finished[1].existing_user[1]) = 15
    /\ finished[1].replies[1].message.free_line =
         Some([remaining |-> 0, limit |-> 10])

\* C5: a store operation that fails in /start, /register or /balance is
\* caught by the handler, which sends a generic failure reply and returns.
C5_StoreFailuresHandled ==
    (/\ finished # None
     /\ command(finished[1]) \in {"start", "register", "balance"}
     /\ \E i \in DOMAIN finished[1].calls : ~finished[1].calls[i].ok
     /\ \A i \in DOMAIN finished[1].replies : finished[1].replies[i].ok)
    => /\ finished[1].pc = "done"
       /\ finished[1].replies # <<>>

\* the store is unavailable to the handler of this command
Unavailable(c) ==
    \/ c \in {"start", "register"} /\ users_collection = "None"
    \/ c = "balance" /\ (users_collection = "None" \/ config_collection = "None")

\* every run there is something to see of: those in flight, and the last ended
Runs == {task[h] : h \in {g \in Handlers : task[g].pc # "idle"}}
          \cup {finished[i] : i \in DOMAIN finished}

\* C6: with the store unavailable, /start, /register and /balance make one
\* reply, "database not available", and return, with no store call and no
\* credentials generated; /help and free text make no store call at all.
C6_UnavailableStoreUntouched ==
    \A t \in Runs :
        /\ Unavailable(command(t)) =>
             /\ t.calls = <<>>
             /\ t.credentials = None
             /\ t.existing_user = None
             /\ t.pc \in {"done", "raised"} =>
                  /\ Sent(t) = <<DbUnavailable>>
                  /\ t.replies[1].ok => t.pc = "done"
        /\ command(t) \in {"help", "text"} => t.calls = <<>>

C6_Witness ==
    /\ users_collection # "None"
    /\ config_collection = "None"
    /\ finished # None
    /\ command(finished[1]) = "balance"
    /\ finished[1].pc = "done"
    /\ finished[1].calls = <<>>
    /\ finished[1].replies = <<[message |-> DbUnavailable, ok |-> TRUE]>>

\* C7: when the insert of a /register fails, the reply is "error creating
\* your account", the store gets no record from the run, and the insert was
\* tried once; any /register whose lookup finds no record of the id, a later
\* one of the same id included, goes on as a fresh registration.
C7_InsertFailureNotRetried ==
    [][\A h \in Handlers :
         /\ (/\ Acts(h)
             /\ task[h].pc = "register_insert"
             /\ InsertRaised(After(h)))
            => /\ users' = users
               /\ Cardinality(Inserts(After(h))) = 1
               /\ Sent(After(h)) = <<ErrorCreating>>
               /\ After(h).replies[1].ok => After(h).pc = "done"
         /\ (/\ Acts(h)
             /\ task[h].pc = "register"
             /\ users_collection # "None"
             /\ ~HasRecord(sender_id(task[h]))
             /\ After(h).exc # "users.find_one")
            => /\ task'[h].pc = "register_insert"
               /\ task'[h].credentials # None
               /\ task'[h].replies = <<>>]_vars

C7_Witness ==
    /\ finished # None
    /\ command(finished[1]) = "register"
    /\ finished[1].pc = "done"
    /\ finished[1].calls = <<[op |-> "users.find_one", ok |-> TRUE],
                             [op |-> "users.insert_one", ok |-> FALSE]>>
    /\ finished[1].replies = <<[message |-> ErrorCreating, ok |-> TRUE]>>
    /\ ~HasRecord(sender_id(finished[1]))
    /\ \E h \in Handlers :
         /\ task[h].pc = "register_insert"
         /\ sender_id(task[h]) = sender_id(finished[1])

\* C9: only /register changes the user store, and only by adding one record
\* at its insert; the records already there stay as they are, and the config
\* store is never written.
C9_OnlyRegisterAdds ==
    [][/\ system_config' = system_config
       /\ Len(users') >= Len(users)
       /\ SubSeq(users', 1, Len(users)) = users
       /\ users' # users =>
            /\ Len(users') = Len(users) + 1
            /\ \E h \in Handlers :
                 /\ Acts(h)
                 /\ task[h].pc = "register_insert"
                 /\ command(task[h]) = "register"]_vars

C9_Witness ==
    /\ finished # None
    /\ command(finished[1]) = "balance"
    /\ finished[1].pc = "done"
    /\ finished[1].calls = <<[op |-> "users.find_one", ok |-> TRUE],
                             [op |-> "system_config.find_one", ok |-> TRUE]>>
    /\ delivered = 2
    /\ users = <<StoredUser(3)>>
    /\ system_config = InitialConfig10

\* C10: a /register that sends "error creating your account" has inserted no
\* record into the user store.
C10_ErrorReplyMeansNoInsert ==
    (/\ finished # None
     /\ command(finished[1]) = "register"
     /\ \E i \in DOMAIN finished[1].replies :
          finished[1].replies[i] = [message |-> ErrorCreating, ok |-> TRUE])
    => \A i \in DOMAIN finished[1].calls :
          finished[1].calls[i] # [op |-> "users.insert_one", ok |-> TRUE]

\* the i-th character of d that is not a space
NthNonSpace(d, i) ==
    d[CHOOSE j \in DOMAIN d :
        d[j] # " " /\ Cardinality({m \in 1..j : d[m] # " "}) = i]

\* out is c lower-cased
IsLowerOf(out, c) ==
    \/ \E n \in DOMAIN Uppercase : Uppercase[n] = c /\ Lowercase[n] = out
    \/ (\A n \in DOMAIN Uppercase : Uppercase[n] # c) /\ out = c

Min(a, b) == IF a <= b THEN a ELSE b

\* u is the username the claim describes for id and display name d
ClaimedUsername(u, id, d) ==
    LET named == d # None /\ d[1] # <<>>
        kept == IF named THEN Cardinality({j \in DOMAIN d[1] : d[1][j] # " "})
                ELSE 0
        k == IF named THEN Min(8, kept) ELSE 4
        n == Min(6, Len(id))
    IN  /\ Len(u) = k + 1 + n
        /\ IF named
           THEN \A i \in 1..k : IsLowerOf(u[i], NthNonSpace(d[1], i))
           ELSE SubSeq(u, 1, 4) = <<"u","s","e","r">>
        /\ u[k + 1] = "_"
        /\ \A i \in 1..n : u[k + 1 + i] = id[Len(id) - n + i]

\* C8: generate_username(id, d) is base, "_" and the last 6 characters of the
\* id (all of it when shorter), base being "user" when d is empty or absent
\* and else the first at most 8 characters of d lower-cased without its
\* spaces; id 12345678 and name "Ana Maria" give "anamaria_345678".
C8_GeneratedUsername ==
    \A h \in Handlers :
        task[h].credentials # None =>
          /\ ClaimedUsername(task[h].credentials[1].username,
                             sender_id(task[h]),
                             task[h].update[1].effective_user.first_name)
          /\ (task[h].update[1].effective_user =
                [id |-> 12345678, first_name |-> Some(AnaMaria)])
             => task[h].credentials[1].username =
                  <<"a","n","a","m","a","r","i","a","_","3","4","5","6","7","8">>

C8_Witness ==
    \E h \in Handlers :
        /\ task[h].pc = "register_insert"
        /\ task[h].update[1].effective_user =
             [id |-> 42,
              first_name |-> Some(<<" ","A"," ","b","A"," ","b","b","A">>)]
        /\ task[h].credentials[1].username = <<"a","b","a","b","b","a","_","4","2">>
====
